---- MODULE Spec2Model ----
(***************************************************************************)
(* Session registry of the survey-ingestion application.                   *)
(*                                                                         *)
(* The repository holds several generations of the same application.  The  *)
(* model follows three of them, in specifications over the same           *)
(* state:                                                                  *)
(*   Spec       RegistryStore (src/App.tsx 35-80) with its App, HomePage,  *)
(*              SessionView and AdminPanel (src/App.tsx 263-666);          *)
(*   SpecIngest the same program with a summarization service that may     *)
(*              fail;                                                      *)
(*   SpecToggle the same program, with every fetch succeeding and the      *)
(*              number of toggle requests per session recorded;            *)
(*   SpecCommit the same program, with two uploads and every fetch         *)
(*              succeeding;                                                *)
(*   SpecFile   the same program, with the uploaded file drawn from Files  *)
(*              and parsed by parseCSV;                                    *)
(*   SpecReply  the uploads of SpecFile, with any reply of the             *)
(*              summarization service;                                     *)
(*   SpecDist   getColumnDist and parseCSVData applied to a column built   *)
(*              cell by cell;                                              *)
(*   SpecClassify  parseCSV of both generations applied to such a column;  *)
(*   SpecHeaders  the three parseCSV that drop headers, applied to a file  *)
(*              built header by header, and applied to it twice;           *)
(*   SpecToken  the splitting of one line into fields, character by        *)
(*              character;                                                 *)
(*   SpecCorr   calculateCorrelationMap applied to columns and responses   *)
(*              built one by one;                                          *)
(*   SpecLocal  the Persistence generation (src/App.tsx 717-1319);         *)
(*   SpecSupa   storageService + parseCSVData + the AdminPanel that calls  *)
(*              them (src/unnamed/part_010, src/services/csvService.ts,    *)
(*              src/unnamed/part_003).                                     *)
(*                                                                         *)
(* JavaScript runs one task at a time: every action below is the code      *)
(* between two suspension points (await of a fetch, of the summarization   *)
(* service, of the backend, or a FileReader callback).                     *)
(***************************************************************************)
EXTENDS Integers, Sequences, FiniteSets, TLC

\* The number of files an administrator uploads.
MaxUploads == 1

\* The number of toggle requests per session that SpecToggle follows.
MaxToggles == 2

\* Ids of the columns parseCSV produces (`q${i}`), and the asynchronous flows
\* that may be in flight at once.
Cols == {"q0", "q1"}
Tasks == {1, 2}

VARIABLES
  storage,   \* localStorage[STORAGE_KEY] / the backend tables: a sequence of sessions
  sessions,  \* the `sessions` React state of App / AdminPanel
  tasks,     \* the asynchronous flows in flight, each at its suspension point
  now,       \* the last instant Date.now() returned (0: none yet)
  uploaded,  \* the number of uploads started; the k-th uploads file k
  toggled,   \* history: per session id, the toggle requests made (SpecToggle)
  error,     \* the `error` state of the admin panel ("none": null)
  input,     \* the file or the column a parsing function is applied to
  output,    \* the result of that function
  loading    \* the `loading` state of AdminPanel (src/App.tsx 370-406)

vars == <<storage, sessions, tasks, now, uploaded, toggled, error, input, output, loading>>

----------------------------------------------------------------------------
\* Sessions

SeedId == 0

Ids == SeedId .. MaxUploads

Described(v) == [c \in Cols |-> v]

\* INITIAL_SESSIONS / sessions.json: one public session, older than any upload.
SeedData ==
  << [id |-> SeedId, isPublic |-> TRUE, lastUpdated |-> 0,
      sourceName |-> 0, columnDescriptions |-> Described("summary")] >>

\* No parsing function has been applied.
NoResult == [of |-> "none"]

NoSession ==
  [id |-> -1, isPublic |-> FALSE, lastUpdated |-> 0,
   sourceName |-> -1, columnDescriptions |-> Described("absent")]

Range(seq) == {seq[i] : i \in 1..Len(seq)}

IdsOf(seq) == {seq[i].id : i \in 1..Len(seq)}

\* Array.prototype.find: the first element with that id, or NoSession (undefined).
RECURSIVE Find(_, _)
Find(seq, id) ==
  IF seq = <<>> THEN NoSession
  ELSE IF Head(seq).id = id THEN Head(seq)
  ELSE Find(Tail(seq), id)

\* Array.prototype.filter
RECURSIVE Filter(_, _)
Filter(seq, keep) ==
  IF seq = <<>> THEN <<>>
  ELSE IF Head(seq) \in keep THEN <<Head(seq)>> \o Filter(Tail(seq), keep)
  ELSE Filter(Tail(seq), keep)

WithoutIds(seq, ids) == Filter(seq, {s \in Range(seq) : s.id \notin ids})

WithoutId(seq, id) == WithoutIds(seq, {id})

OnlyPublic(seq) == Filter(seq, {s \in Range(seq) : s.isPublic})

\* sessions.sort((a, b) => b.lastUpdated - a.lastUpdated): descending, stable.
RECURSIVE InsertSorted(_, _)
InsertSorted(s, sorted) ==
  IF sorted = <<>> THEN <<s>>
  ELSE IF Head(sorted).lastUpdated >= s.lastUpdated
       THEN <<Head(sorted)>> \o InsertSorted(s, Tail(sorted))
  ELSE <<s>> \o sorted

RECURSIVE SortByLastUpdated(_)
SortByLastUpdated(seq) ==
  IF seq = <<>> THEN <<>>
  ELSE InsertSorted(seq[Len(seq)], SortByLastUpdated(SubSeq(seq, 1, Len(seq) - 1)))

----------------------------------------------------------------------------
\* RegistryStore (src/App.tsx 35-80)

FetchOutcomes == {"ok", "notOk", "reject"}

\* The merge of sync, lines 47-49: the seed first, then the cached sessions
\* whose id the seed does not hold.
\* A merge in which the cached version of a session wins over the seed's.
MergeSeed_CacheWins(seedData, local) ==
  local \o WithoutIds(seedData, IdsOf(local))

MergeSeed(seedData, local) == seedData \o WithoutIds(local, IdsOf(seedData))

\* What sync writes to localStorage (line 52), given the cache it read before
\* the fetch and the outcome of the fetch; "reject" reaches the catch before save.
SyncSaved(local, outcome, before) ==
  CASE outcome = "ok" -> MergeSeed(SeedData, local)
    [] outcome = "notOk" -> local
    [] OTHER -> before

\* What sync returns (lines 53 and 56).
SyncResult(local, outcome) ==
  CASE outcome = "ok" -> SortByLastUpdated(MergeSeed(SeedData, local))
    [] outcome = "notOk" -> SortByLastUpdated(local)
    [] OTHER -> <<>>

\* current.map(s => s.id === id ? { ...s, ...updates } : s), updates = { isPublic }
ApplyUpdate(current, id, isPublic) ==
  [i \in 1..Len(current) |->
     IF current[i].id = id THEN [current[i] EXCEPT !.isPublic = isPublic]
     ELSE current[i]]

\* What commit, update and detach save after their sync returned `current`.
OpSaved(op, current, s) ==
  CASE op = "commit" -> <<s>> \o current
    [] op = "update" -> ApplyUpdate(current, s.id, s.isPublic)
    [] op = "detach" -> WithoutId(current, s.id)

----------------------------------------------------------------------------
\* Asynchronous flows

IdleTask ==
  [pc |-> "idle", op |-> "none", local |-> <<>>, s |-> NoSession,
   desc |-> Described("absent")]

Idle(t) == tasks[t].pc = "idle"

\* The flow a new operation runs in: the first one that is idle.
Free(t) == Idle(t) /\ \A u \in Tasks : u < t => ~Idle(u)

\* Date.now(): the instant of the last call or a later one.  Only the order
\* and the equality of instants matter to ids and to the sort of sync.
Instants == {at \in {now, now + 1} : at >= 1}

\* A flow that enters RegistryStore.sync: it reads localStorage (line 40) and
\* suspends at the fetch (line 44).
EnterSync(op, s, store) ==
  [pc |-> "sync", op |-> op, local |-> store, s |-> s, desc |-> Described("absent")]

\* HomePage.visibleSessions (src/App.tsx 266-269), for the user `u`.
visibleSessions(u) == IF u = "admin" THEN sessions ELSE OnlyPublic(sessions)

\* The routes of App (src/App.tsx 637-641).
HomeRoute == [page |-> "home", id |-> -1]

AdminRoute == [page |-> "admin", id |-> -1]

SessionRoute(id) == [page |-> "session", id |-> id]

Routes == {HomeRoute, AdminRoute} \cup {SessionRoute(id) : id \in Ids}

\* SessionView (src/App.tsx 314-318): the session found by the id of the route.
SessionViewed(id) == Find(sessions, id)

\* The sessions route `r` shows to user `u`; /admin without a user redirects
\* to / (line 640).
Rendered(r, u) ==
  CASE r.page = "session" -> {SessionViewed(r.id)} \ {NoSession}
    [] r.page = "admin" /\ u = "admin" -> Range(sessions)
    [] OTHER -> Range(visibleSessions(u))

----------------------------------------------------------------------------
\* Spec: the RegistryStore generation

\* App mounts with an empty cache and calls refreshRegistry (lines 585-602).
Init ==
  /\ storage = <<>>
  /\ sessions = <<>>
  /\ tasks = [t \in Tasks |->
               IF t = 1 THEN EnterSync("refresh", NoSession, <<>>) ELSE IdleTask]
  /\ now = 0
  /\ uploaded = 0
  /\ toggled = [i \in Ids |-> 0]
  /\ error = "none"
  /\ input = <<>>
  /\ output = NoResult
  /\ loading = FALSE

\* handleFileUpload up to reader.readAsText (lines 370-374, 404-405): the
\* button is enabled while loading is false; setLoading(true) is followed by
\* the setLoading(false) of the finally block as soon as readAsText has
\* returned, before the reader has loaded anything.
StartUploadWithin(t, max) ==
  /\ ~loading
  /\ Free(t)
  /\ uploaded < max
  /\ loading' = FALSE
  /\ uploaded' = uploaded + 1
  /\ tasks' = [tasks EXCEPT ![t] =
                 [IdleTask EXCEPT !.pc = "reading", !.op = "upload",
                                  !.s = [NoSession EXCEPT !.sourceName = uploaded']]]
  /\ UNCHANGED <<storage, sessions, now, toggled, error, input, output>>

StartUpload(t) == StartUploadWithin(t, MaxUploads)

\* reader.onload up to the await of generateQuestionDescriptions (lines 375-380).
ReaderLoaded(t) ==
  /\ tasks[t].pc = "reading"
  /\ tasks' = [tasks EXCEPT ![t].pc = "describing", ![t].desc = Described("pending")]
  /\ UNCHANGED <<storage, sessions, now, uploaded, toggled, error, input, output, loading>>

\* generateQuestionDescriptions (src/geminiService.ts 39-60): the parsed reply,
\* which holds a description for every column or lacks one column's key, or {}
\* when the request fails.
DescriptionReplies ==
  {Described("summary")}
    \cup {[Described("summary") EXCEPT ![c] = "absent"] : c \in Cols}
    \cup {Described("absent")}

\* The session handleFileUpload builds (lines 382-397).
NewSession(t, at, descriptions) ==
  [id |-> at, isPublic |-> FALSE, lastUpdated |-> at,
   sourceName |-> tasks[t].s.sourceName, columnDescriptions |-> descriptions]

\* const descriptions = await generateQuestionDescriptions(...) (line 380):
\* the value the flow resumes with is the reply.
\* The descriptions as they are when the request has not been awaited.
AwaitedDescriptions_NotAwaited(t, reply) == tasks[t].desc

AwaitedDescriptions(t, reply) == reply

\* The descriptions arrive; the session is built and RegistryStore.commit
\* enters sync (lines 380-398, 64-65, 38-44).
BuildAndCommit(t, reply, at) ==
  /\ tasks[t].pc = "describing"
  /\ at \in Instants
  /\ now' = at
  /\ tasks' = [tasks EXCEPT ![t] =
                 EnterSync("commit",
                           NewSession(t, at, AwaitedDescriptions(t, reply)),
                           storage)]
  /\ UNCHANGED <<storage, sessions, uploaded, toggled, error, input, output, loading>>

\* toggleVisibility (lines 408-409) for the i-th session the panel lists.
\* With `counting`, the request is recorded in `toggled`, and at most
\* MaxToggles requests are made per session.
ToggleVisibility(t, i, counting) ==
  /\ Free(t)
  /\ i \in 1..Len(sessions)
  /\ counting => toggled[sessions[i].id] < MaxToggles
  /\ toggled' = IF counting
                THEN [toggled EXCEPT ![sessions[i].id] = @ + 1]
                ELSE toggled
  /\ tasks' = [tasks EXCEPT ![t] =
                 EnterSync("update",
                           [sessions[i] EXCEPT !.isPublic = ~sessions[i].isPublic],
                           storage)]
  /\ UNCHANGED <<storage, sessions, now, uploaded, error, input, output, loading>>

\* handleDelete (lines 419-421), confirmed.
HandleDelete(t, i) ==
  /\ Free(t)
  /\ i \in 1..Len(sessions)
  /\ tasks' = [tasks EXCEPT ![t] = EnterSync("detach", sessions[i], storage)]
  /\ UNCHANGED <<storage, sessions, now, uploaded, toggled, error, input, output, loading>>

\* The fetch of a refreshRegistry resolves: sync saves and returns, and
\* setSessions takes the result (lines 45-57, 593-595).
RefreshDone(t, outcome) ==
  /\ tasks[t].pc = "sync" /\ tasks[t].op = "refresh"
  /\ storage' = SyncSaved(tasks[t].local, outcome, storage)
  /\ sessions' = SyncResult(tasks[t].local, outcome)
  /\ tasks' = [tasks EXCEPT ![t] = IdleTask]
  /\ UNCHANGED <<now, uploaded, toggled, error, input, output, loading>>

\* The fetch inside commit, update or detach resolves: sync saves and returns,
\* the operation saves its own result, and the caller's onRefresh enters sync
\* again (lines 45-57, 64-79, 398-399, 409-410, 421-422).
OperationDone(t, outcome) ==
  /\ tasks[t].pc = "sync" /\ tasks[t].op \in {"commit", "update", "detach"}
  /\ storage' = OpSaved(tasks[t].op, SyncResult(tasks[t].local, outcome), tasks[t].s)
  /\ tasks' = [tasks EXCEPT ![t] = EnterSync("refresh", NoSession, storage')]
  /\ UNCHANGED <<sessions, now, uploaded, toggled, error, input, output, loading>>

NextWith(replies, outcomes, counting) ==
  \/ \E t \in Tasks : StartUpload(t)
  \/ \E t \in Tasks : ReaderLoaded(t)
  \/ \E t \in Tasks, reply \in replies, at \in Ids :
       BuildAndCommit(t, reply, at)
  \/ \E t \in Tasks, i \in 1..Len(sessions) : ToggleVisibility(t, i, counting)
  \/ \E t \in Tasks, i \in 1..Len(sessions) : HandleDelete(t, i)
  \/ \E t \in Tasks, outcome \in outcomes : RefreshDone(t, outcome)
  \/ \E t \in Tasks, outcome \in outcomes : OperationDone(t, outcome)

\* The summarization service answers every request in full.
Next == NextWith({Described("summary")}, FetchOutcomes, FALSE)

Spec == Init /\ [][Next]_vars

\* The summarization service may fail, or leave a column out of its reply.
NextIngest == NextWith(DescriptionReplies, FetchOutcomes, FALSE)

SpecIngest == Init /\ [][NextIngest]_vars

\* Every fetch of the seed succeeds, and the toggle requests are counted.
NextToggle == NextWith({Described("summary")}, {"ok"}, TRUE)

SpecToggle == Init /\ [][NextToggle]_vars

\* The number of files an administrator uploads in SpecCommit.
MaxCommits == 2

StartCommitUpload(t) == StartUploadWithin(t, MaxCommits)

\* Uploads only, possibly two at a time; every fetch of the seed succeeds.
NextCommit ==
  \/ \E t \in Tasks : StartCommitUpload(t)
  \/ \E t \in Tasks : ReaderLoaded(t)
  \/ \E t \in Tasks, at \in 1..MaxCommits :
       BuildAndCommit(t, Described("summary"), at)
  \/ \E t \in Tasks : RefreshDone(t, "ok")
  \/ \E t \in Tasks : OperationDone(t, "ok")

SpecCommit == Init /\ [][NextCommit]_vars

----------------------------------------------------------------------------
\* Parsing (the RegistryStore generation).  A file is the sequence of its
\* lines as split at line ends, a line the sequence of its cells as split at
\* commas.

\* String.prototype.trim on the cells the model draws.
Trim(cell) ==
  CASE cell = " " -> ""
    [] cell = " a" -> "a"
    [] cell = "b " -> "b"
    [] OTHER -> cell

\* line.trim() !== '': a line without a comma whose text is white space.
IsBlank(line) == Len(line) = 1 /\ Trim(line[1]) = ""

\* h.toLowerCase().includes('timestamp')
IsTimestamp(h) == h \in {"Timestamp", "timestamp", "Timestamp (UTC)"}

\* Ids that count the parses as well: a second parse numbers its columns
\* from where the first one stopped.
ColumnIds_Counted ==
  IF output = NoResult THEN <<"q0", "q1", "q2", "q3">> ELSE <<"q4", "q5", "q6", "q7">>

\* `q${i}` for the i-th header that is kept, counted from 0.
ColumnIds == <<"q0", "q1", "q2", "q3">>

\* columns.find(c => c.label === h): the index of the first column with the
\* label, 0 when there is none.
ColumnOf(columns, h) ==
  IF \E i \in 1..Len(columns) : columns[i].label = h
    THEN CHOOSE i \in 1..Len(columns) :
           /\ columns[i].label = h
           /\ \A j \in 1..(i - 1) : columns[j].label # h
    ELSE 0

\* values[originalIndex] || ''
ValueAt(values, k) == IF k <= Len(values) THEN values[k] ELSE ""

\* One response: the headers are walked in order and each writes the value at
\* its index under the id of the column found for its label.
ResponseOf(headers, columns, line) ==
  LET values == [k \in 1..Len(line) |-> Trim(line[k])]
      found == {ColumnOf(columns, headers[k]) : k \in 1..Len(headers)} \ {0}
      last(i) == CHOOSE k \in 1..Len(headers) :
                   /\ ColumnOf(columns, headers[k]) = i
                   /\ \A m \in (k + 1)..Len(headers) :
                        ColumnOf(columns, headers[m]) # i
  IN [id \in {columns[i].id : i \in found} |->
        LET i == CHOOSE j \in found : columns[j].id = id
        IN ValueAt(values, last(i))]

\* parseCSV of src/App.tsx 83-110.
parseCSV(csv) ==
  LET lines == SelectSeq(csv, LAMBDA line : ~IsBlank(line))
  IN IF Len(lines) < 2
       THEN [columns |-> <<>>, responses |-> <<>>]
       ELSE LET headers == [k \in 1..Len(lines[1]) |-> Trim(lines[1][k])]
                filteredHeaders == SelectSeq(headers, LAMBDA h : ~IsTimestamp(h))
                columns == [i \in 1..Len(filteredHeaders) |->
                              [id |-> ColumnIds[i], label |-> filteredHeaders[i],
                               isVisualizable |-> TRUE]]
            IN [columns |-> columns,
                responses |-> [r \in 1..(Len(lines) - 1) |->
                                 ResponseOf(headers, columns, lines[r + 1])]]

\* The files an administrator uploads in SpecFile: empty, header only, header
\* and a blank line, and with one and two content lines.
Files ==
  LET header == <<"Timestamp", "a", "b ">>
  IN { << <<"">> >>,
       << header >>,
       << header, <<" ">> >>,
       << header, <<"t1", " a", "b">> >>,
       << header, <<"t1", "a", "b">>, <<"">>, <<"t2", "a", "">> >> }

\* The reply of a summarization service that describes the columns it is
\* asked about.
RepliesFor(columns) ==
  { [id \in {columns[i].id : i \in {j \in 1..Len(columns) : columns[j].isVisualizable}}
       |-> "summary"] }

\* The administrator has selected one of the files; App mounts.
InitFile ==
  /\ storage = <<>>
  /\ sessions = <<>>
  /\ tasks = [t \in Tasks |->
       IF t = 1 THEN EnterSync("refresh", NoSession, <<>>) ELSE IdleTask]
  /\ now = 0
  /\ uploaded = 0
  /\ toggled = [i \in Ids |-> 0]
  /\ error = "none"
  /\ input \in Files
  /\ output = NoResult
  /\ loading = FALSE

\* The registry with uploads of the selected file; every fetch succeeds.
NextFile ==
  \/ \E t \in Tasks : StartUpload(t)
  \/ \E t \in Tasks : ReaderLoaded(t)
  \/ \E t \in Tasks, at \in Ids :
       \E reply \in RepliesFor(parseCSV(input).columns) :
         BuildAndCommit(t, reply, at)
  \/ \E t \in Tasks, i \in 1..Len(sessions) : ToggleVisibility(t, i, FALSE)
  \/ \E t \in Tasks, i \in 1..Len(sessions) : HandleDelete(t, i)
  \/ \E t \in Tasks : RefreshDone(t, "ok")
  \/ \E t \in Tasks : OperationDone(t, "ok")

SpecFile == InitFile /\ [][NextFile]_vars

\* The ids of the columns of a parse result.
ColumnIdsOf(parsed) == {parsed.columns[i].id : i \in 1..Len(parsed.columns)}

\* JSON.parse(response.text) of any reply: an object with any of the keys
\* asked for, and possibly a key that was not asked for.
ServiceReplies(columns) ==
  { [id \in keys |-> "summary"] :
      keys \in SUBSET ({columns[i].id : i \in 1..Len(columns)} \cup {"other"}) }

\* The uploads of the selected file with a summarization service that
\* replies anything.
NextReply ==
  \/ \E t \in Tasks : StartUpload(t)
  \/ \E t \in Tasks : ReaderLoaded(t)
  \/ \E t \in Tasks, at \in Ids :
       \E reply \in ServiceReplies(parseCSV(input).columns) :
         BuildAndCommit(t, reply, at)
  \/ \E t \in Tasks : RefreshDone(t, "ok")
  \/ \E t \in Tasks : OperationDone(t, "ok")

SpecReply == InitFile /\ [][NextReply]_vars

----------------------------------------------------------------------------
\* Distributions: getColumnDist of the registry generations and the counting
\* of parseCSVData, applied to one column of a file.

\* The number of content lines of the file in SpecDist.
MaxCells == 4

\* The cells of the column: empty, white space, two texts that are array
\* indices for a JavaScript object, and two that are not.
DistCells == {"", " ", "2", "1", "b ", "a"}

\* The keys among them that an object enumerates first, in ascending order.
ArrayIndexKeys == <<"1", "2">>

\* The distinct values of a sequence in the order of their first occurrence:
\* the order in which `dist[v] = (dist[v] || 0) + 1` creates the properties.
RECURSIVE Inserted(_)
Inserted(values) ==
  IF values = <<>> THEN <<>>
  ELSE LET rest == Inserted(SubSeq(values, 1, Len(values) - 1))
           last == values[Len(values)]
       IN IF last \in Range(rest) THEN rest ELSE Append(rest, last)

\* Object.entries: array-index keys in ascending numeric order, then the
\* other keys in the order of their insertion.
ObjectKeys(inserted) ==
  SelectSeq(ArrayIndexKeys, LAMBDA k : k \in Range(inserted))
    \o SelectSeq(inserted, LAMBDA k : k \notin Range(ArrayIndexKeys))

Count(values, name) == Cardinality({i \in 1..Len(values) : values[i] = name})

\* A percentage cut to a whole number.
toFixed1_WholePercent(value, total) == 10 * ((100 * value) \div total)

\* ((value / total) * 100).toFixed(1), as a number of tenths.  A tie of the
\* rounding needs a total that is a multiple of 16.
toFixed1(value, total) == (2000 * value + total) \div (2 * total)

\* Array.prototype.sort((a, b) => b.value - a.value): stable, descending.
RECURSIVE InsertByValue(_, _)
InsertByValue(e, sorted) ==
  IF sorted = <<>> THEN <<e>>
  ELSE IF Head(sorted).value >= e.value
         THEN <<Head(sorted)>> \o InsertByValue(e, Tail(sorted))
         ELSE <<e>> \o sorted

RECURSIVE SortByValue(_)
SortByValue(seq) ==
  IF seq = <<>> THEN <<>>
  ELSE InsertByValue(seq[Len(seq)], SortByValue(SubSeq(seq, 1, Len(seq) - 1)))

\* The entries of a counting object, with percentages over `total`.
Entries(names, total) ==
  LET keys == ObjectKeys(Inserted(names))
  IN SortByValue([k \in 1..Len(keys) |->
       [name |-> keys[k], value |-> Count(names, keys[k]),
        percentage |-> IF total > 0 THEN toFixed1(Count(names, keys[k]), total)
                                    ELSE 0]])

\* getColumnDist of src/App.tsx 112-129.
getColumnDist(responses, columnId) ==
  LET vals == [i \in 1..Len(responses) |->
                 IF columnId \in DOMAIN responses[i]
                   THEN responses[i][columnId] ELSE ""]
      valid == SelectSeq(vals, LAMBDA v : v # "")
      names == [i \in 1..Len(valid) |-> Trim(valid[i])]
  IN [data |-> Entries(names, Len(valid)), totalValid |-> Len(valid)]

\* csvContent.trim(): the blank lines at both ends of the file go.
RECURSIVE TrimFile(_)
TrimFile(csv) ==
  IF csv = <<>> THEN <<>>
  ELSE IF IsBlank(Head(csv)) THEN TrimFile(Tail(csv))
  ELSE IF IsBlank(csv[Len(csv)]) THEN TrimFile(SubSeq(csv, 1, Len(csv) - 1))
  ELSE csv

\* parseCSVData of src/services/csvService.ts 5-31, for the column at colIdx
\* (counted from 1): its sortedData and the total the percentages are over.
parseCSVDataColumn(csv, colIdx) ==
  LET lines == TrimFile(csv)
  IN IF Len(lines) < 2 THEN [data |-> <<>>, totalValid |-> 0]
     ELSE LET rows == Tail(lines)
              names == [r \in 1..Len(rows) |->
                          IF Trim(ValueAt(rows[r], colIdx)) = ""
                            THEN "No Response"
                            ELSE Trim(ValueAt(rows[r], colIdx))]
          IN [data |-> Entries(names, Len(rows)), totalValid |-> Len(rows)]

\* The file whose one column after the timestamp holds the cells.
FileOf(cells) ==
  << <<"Timestamp", "a">> >> \o [i \in 1..Len(cells) |-> <<"t1", cells[i]>>]

\* Nothing is stored; the file is empty so far.
InitDist ==
  /\ storage = <<>>
  /\ sessions = <<>>
  /\ tasks = [t \in Tasks |-> IdleTask]
  /\ now = 0
  /\ uploaded = 0
  /\ toggled = [i \in Ids |-> 0]
  /\ error = "none"
  /\ input = <<>>
  /\ output = NoResult
  /\ loading = FALSE

\* The file gets one more content line.
AddCell(cell) ==
  /\ output = NoResult
  /\ Len(input) < MaxCells
  /\ input' = Append(input, cell)
  /\ UNCHANGED <<storage, sessions, tasks, now, uploaded, toggled, error, output, loading>>

\* The file is parsed and the distribution of its column computed.
ApplyGetColumnDist ==
  /\ output = NoResult
  /\ output' = [of |-> "getColumnDist",
                result |-> getColumnDist(parseCSV(FileOf(input)).responses, "q0")]
  /\ UNCHANGED <<storage, sessions, tasks, now, uploaded, toggled, error, input, loading>>

\* parseCSVData counts the same column.
ApplyParseCSVData ==
  /\ output = NoResult
  /\ output' = [of |-> "parseCSVData",
                result |-> parseCSVDataColumn(FileOf(input), 2)]
  /\ UNCHANGED <<storage, sessions, tasks, now, uploaded, toggled, error, input, loading>>

NextDist ==
  \/ \E cell \in DistCells : AddCell(cell)
  \/ ApplyGetColumnDist
  \/ ApplyParseCSVData

SpecDist == InitDist /\ [][NextDist]_vars

----------------------------------------------------------------------------
\* Classification of columns: parseCSV of the Persistence generation, which
\* decides isVisualizable from the values, beside parseCSV of the
\* RegistryStore generation, which does not.

\* The number of content lines of the file in SpecClassify.
MaxRows == 6

\* The texts of the cells of the column; the k-th new text of a column is the
\* k-th of them.
ClassCells == <<"v1", "v2", "v3", "v4", "v5", "v6", "v7">>

\* `col_${i}` for the header at index i, counted from 0.
HeuristicColumnIds == <<"col_0", "col_1", "col_2", "col_3">>

\* valuesInCol: the non-empty trimmed values of the column at index i.
valuesInCol(rows, i) ==
  SelectSeq([r \in 1..Len(rows) |-> Trim(ValueAt(rows[r], i))], LAMBDA v : v # "")

\* The heuristic of src/App.tsx 751-754 (uniqueCount / total < 0.9).
isVisualizable(values) ==
  LET uniqueCount == Cardinality(Range(values))
      totalResponsesInCol == Len(values)
  IN /\ totalResponsesInCol > 1
     /\ uniqueCount > 1
     /\ 10 * uniqueCount < 9 * totalResponsesInCol

\* parseCSV of src/App.tsx 728-764.
parseCSVHeuristic(csv) ==
  LET lines == SelectSeq(csv, LAMBDA line : ~IsBlank(line))
  IN IF Len(lines) < 1 THEN [columns |-> <<>>, responses |-> <<>>]
     ELSE LET rawHeaders == [k \in 1..Len(lines[1]) |-> Trim(lines[1][k])]
              kept == SelectSeq([k \in 1..Len(rawHeaders) |-> k],
                                LAMBDA k : rawHeaders[k] \notin {"Timestamp", "timestamp"})
          IN [columns |-> [c \in 1..Len(kept) |->
                [id |-> HeuristicColumnIds[kept[c]], label |-> rawHeaders[kept[c]],
                 isVisualizable |-> isVisualizable(valuesInCol(Tail(lines), kept[c]))]],
              responses |-> [r \in 1..(Len(lines) - 1) |->
                [id \in {HeuristicColumnIds[kept[c]] : c \in 1..Len(kept)} |->
                   LET k == CHOOSE m \in Range(kept) : HeuristicColumnIds[m] = id
                   IN Trim(ValueAt(lines[r + 1], k))]]]

\* The file gets one more content line; its cell is empty, white space, a
\* text the column already holds or the next new text.
AddValue(cell) ==
  /\ output = NoResult
  /\ Len(input) < MaxRows
  /\ \/ cell \in {"", " "}
     \/ \E k \in 1..Len(ClassCells) :
          /\ cell = ClassCells[k]
          /\ \A j \in 1..(k - 1) : ClassCells[j] \in Range(input)
  /\ input' = Append(input, cell)
  /\ UNCHANGED <<storage, sessions, tasks, now, uploaded, toggled, error, output, loading>>

\* parseCSV of the RegistryStore generation parses the file.
ApplyParseCSV ==
  /\ output = NoResult
  /\ output' = [of |-> "parseCSV", result |-> parseCSV(FileOf(input))]
  /\ UNCHANGED <<storage, sessions, tasks, now, uploaded, toggled, error, input, loading>>

\* parseCSV of the Persistence generation parses the file.
ApplyParseCSVHeuristic ==
  /\ output = NoResult
  /\ output' = [of |-> "parseCSVHeuristic", result |-> parseCSVHeuristic(FileOf(input))]
  /\ UNCHANGED <<storage, sessions, tasks, now, uploaded, toggled, error, input, loading>>

NextClassify ==
  \/ \E cell \in {"", " "} \cup Range(ClassCells) : AddValue(cell)
  \/ ApplyParseCSV
  \/ ApplyParseCSVHeuristic

SpecClassify == InitDist /\ [][NextClassify]_vars

----------------------------------------------------------------------------
\* Headers: the three parseCSV that drop headers, applied to a file built
\* header by header and line by line.

\* The number of headers and of content lines of the file in SpecHeaders.
MaxHeaders == 3
MaxContentLines == 2

\* The texts of the headers.
HeaderCells == {"Timestamp", "Timestamp (UTC)", "a", "Name"}

\* The text of the field at each position of a content line.
RowCells == <<"r1", "r2", "r3", "r4">>

\* lower.includes('name') || lower.includes('email')
IsPersonal(h) == h \in {"Name"}

\* parseCSV of src/unnamed/part_011 815-843: the first variant, which also
\* drops the headers that name a person.
parseCSVSupa(csv) ==
  LET lines == SelectSeq(csv, LAMBDA line : ~IsBlank(line))
  IN IF Len(lines) < 2
       THEN [columns |-> <<>>, responses |-> <<>>]
       ELSE LET headers == [k \in 1..Len(lines[1]) |-> Trim(lines[1][k])]
                filteredHeaders ==
                  SelectSeq(headers, LAMBDA h : ~IsTimestamp(h) /\ ~IsPersonal(h))
                columns == [i \in 1..Len(filteredHeaders) |->
                              [id |-> ColumnIds[i], label |-> filteredHeaders[i],
                               isVisualizable |-> TRUE]]
            IN [columns |-> columns,
                responses |-> [r \in 1..(Len(lines) - 1) |->
                                 ResponseOf(headers, columns, lines[r + 1])]]

Variants == {"parseCSV", "parseCSVHeuristic", "parseCSVSupa"}

Parsed(variant, csv) ==
  CASE variant = "parseCSV" -> parseCSV(csv)
    [] variant = "parseCSVHeuristic" -> parseCSVHeuristic(csv)
    [] variant = "parseCSVSupa" -> parseCSVSupa(csv)

\* The first line of the file gets one more header.
AddHeader(h) ==
  /\ output = NoResult
  /\ Len(input) <= 1
  /\ \/ input = <<>> /\ input' = << <<h>> >>
     \/ /\ Len(input) = 1
        /\ Len(input[1]) < MaxHeaders
        /\ input' = << Append(input[1], h) >>
  /\ UNCHANGED <<storage, sessions, tasks, now, uploaded, toggled, error, output, loading>>

\* The file gets one more content line, of n fields.
AddRow(n) ==
  /\ output = NoResult
  /\ Len(input) >= 1
  /\ Len(input) < 1 + MaxContentLines
  /\ n <= Len(input[1])
  /\ input' = Append(input, SubSeq(RowCells, 1, n))
  /\ UNCHANGED <<storage, sessions, tasks, now, uploaded, toggled, error, output, loading>>

\* One of the parsers parses the file.
ParseFile(variant) ==
  /\ output = NoResult
  /\ output' = [of |-> variant, result |-> Parsed(variant, input), again |-> <<>>]
  /\ UNCHANGED <<storage, sessions, tasks, now, uploaded, toggled, error, input, loading>>

\* The same parser parses the same file once more.
ParseFileAgain ==
  /\ output # NoResult
  /\ output.again = <<>>
  /\ output' = [output EXCEPT !.again = <<Parsed(output.of, input)>>]
  /\ UNCHANGED <<storage, sessions, tasks, now, uploaded, toggled, error, input, loading>>

NextHeaders ==
  \/ \E h \in HeaderCells : AddHeader(h)
  \/ \E n \in 1..MaxHeaders : AddRow(n)
  \/ \E variant \in Variants : ParseFile(variant)
  \/ ParseFileAgain

SpecHeaders == InitDist /\ [][NextHeaders]_vars

----------------------------------------------------------------------------
\* Tokenizers: the splitting of one line into fields, character by
\* character.  A line and a field are sequences of characters.

\* The number of characters of the line in SpecToken.
MaxChars == 4

Quote == "\""
Chars == {"a", ",", Quote, " "}

\* String.prototype.trim of a field.
RECURSIVE TrimChars(_)
TrimChars(field) ==
  IF field = <<>> THEN <<>>
  ELSE IF Head(field) = " " THEN TrimChars(Tail(field))
  ELSE IF field[Len(field)] = " " THEN TrimChars(SubSeq(field, 1, Len(field) - 1))
  ELSE field

\* replace(/^"|"$/g, ''): a quote at the start and a quote at the end go.
Unquote(field) ==
  LET rest == IF field # <<>> /\ Head(field) = Quote THEN Tail(field) ELSE field
  IN IF rest # <<>> /\ rest[Len(rest)] = Quote
       THEN SubSeq(rest, 1, Len(rest) - 1)
       ELSE rest

\* The pieces of the line between the commas at the positions `at`
\* (ascending).
RECURSIVE Pieces(_, _, _)
Pieces(line, at, from) ==
  IF at = <<>> THEN << SubSeq(line, from, Len(line)) >>
  ELSE << SubSeq(line, from, Head(at) - 1) >> \o Pieces(line, Tail(at), Head(at) + 1)

\* line.split(','): every comma separates.
SplitOnComma(line) ==
  Pieces(line, SelectSeq([i \in 1..Len(line) |-> i], LAMBDA i : line[i] = ","), 1)

\* line.split(/,(?=(?:(?:[^"]*"){2})*[^"]*$)/): a comma separates when an
\* even number of quotes follows it.
SplitOnUnquotedComma(line) ==
  LET quotesAfter(i) == Cardinality({j \in (i + 1)..Len(line) : line[j] = Quote})
  IN Pieces(line,
            SelectSeq([i \in 1..Len(line) |-> i],
                      LAMBDA i : line[i] = "," /\ quotesAfter(i) % 2 = 0),
            1)

\* The loop of src/App.tsx 735-743 from index i on, and the push after it.
RECURSIVE Tokenize(_, _, _, _, _)
Tokenize(line, i, values, current, inQuotes) ==
  IF i > Len(line)
    THEN [values |-> Append(values, TrimChars(current)), inQuotes |-> inQuotes]
  ELSE IF line[i] = Quote /\ i + 1 <= Len(line) /\ line[i + 1] = Quote
    THEN Tokenize(line, i + 2, values, Append(current, Quote), inQuotes)
  ELSE IF line[i] = Quote
    THEN Tokenize(line, i + 1, values, current, ~inQuotes)
  ELSE IF line[i] = "," /\ ~inQuotes
    THEN Tokenize(line, i + 1, Append(values, TrimChars(current)), <<>>, inQuotes)
  ELSE Tokenize(line, i + 1, values, Append(current, line[i]), inQuotes)

\* The line gets one more character.
AddChar(char) ==
  /\ output = NoResult
  /\ Len(input) < MaxChars
  /\ input' = Append(input, char)
  /\ UNCHANGED <<storage, sessions, tasks, now, uploaded, toggled, error, output, loading>>

\* The first variant (and parseCSVData) splits the line: src/App.tsx 86, 98.
ApplySplit ==
  /\ output = NoResult
  /\ output' = [of |-> "split",
                result |-> LET pieces == SplitOnComma(input)
                           IN [values |-> [k \in 1..Len(pieces) |->
                                             Unquote(TrimChars(pieces[k]))]]]
  /\ UNCHANGED <<storage, sessions, tasks, now, uploaded, toggled, error, input, loading>>

\* The second variant splits the header line: src/App.tsx 731.
ApplySplitHeader ==
  /\ output = NoResult
  /\ output' = [of |-> "splitHeader",
                result |-> LET pieces == SplitOnUnquotedComma(input)
                           IN [values |-> [k \in 1..Len(pieces) |->
                                             TrimChars(Unquote(pieces[k]))]]]
  /\ UNCHANGED <<storage, sessions, tasks, now, uploaded, toggled, error, input, loading>>

\* The second variant tokenizes a content line: src/App.tsx 732-745.
ApplyTokenize ==
  /\ output = NoResult
  /\ output' = [of |-> "tokenize", result |-> Tokenize(input, 1, <<>>, <<>>, FALSE)]
  /\ UNCHANGED <<storage, sessions, tasks, now, uploaded, toggled, error, input, loading>>

NextToken ==
  \/ \E char \in Chars : AddChar(char)
  \/ ApplySplit
  \/ ApplySplitHeader
  \/ ApplyTokenize

SpecToken == InitDist /\ [][NextToken]_vars

----------------------------------------------------------------------------
\* Correlations: calculateCorrelationMap applied to columns and responses
\* built one by one.  A column's id is its position; a response is the
\* sequence of its values by column id.

\* The number of columns and of responses in SpecCorr.
MaxColumns == 6
MaxResponses == 2

\* slice(0, 8) of src/App.tsx and Math.min(..., 5) of src/unnamed/part_011.
CapPersistence == 8
CapNodeServer == 5

\* The columns that can be added: shown ones with either label, and a
\* hidden one.
ColumnKinds ==
  { [label |-> "a", isVisualizable |-> TRUE],
    [label |-> "b", isVisualizable |-> TRUE],
    [label |-> "a", isVisualizable |-> FALSE] }

\* The responses that can be added: one that answers every question, and
\* one that answers the first question only.
ResponseKinds ==
  { [i \in 1..(MaxColumns + 1) |-> IF i % 2 = 1 THEN "x" ELSE "y"],
    [i \in 1..(MaxColumns + 1) |-> IF i = 1 THEN "x" ELSE ""] }

\* String(r[col.id] || 'Unknown')
ValueOrUnknown(r, col) == IF r[col.id] = "" THEN "Unknown" ELSE r[col.id]

\* The counts of one pair of columns when a response without a value for
\* either column is skipped.
PairCounts_SkipMissing(responses, colA, colB) ==
  LET rows == {r \in 1..Len(responses) :
                 responses[r][colA.id] # "" /\ responses[r][colB.id] # ""}
      valA(r) == responses[r][colA.id]
      valB(r) == responses[r][colB.id]
  IN [a \in {valA(r) : r \in rows} |->
       [b \in {valB(r) : r \in {q \in rows : valA(q) = a}} |->
          Cardinality({r \in rows : valA(r) = a /\ valB(r) = b})]]

\* The two-level counts of one pair of columns: every response adds one.
PairCounts(responses, colA, colB) ==
  LET rows == 1..Len(responses)
      valA(r) == ValueOrUnknown(responses[r], colA)
      valB(r) == ValueOrUnknown(responses[r], colB)
  IN [a \in {valA(r) : r \in rows} |->
       [b \in {valB(r) : r \in {q \in rows : valA(q) = a}} |->
          Cardinality({r \in rows : valA(r) = a /\ valB(r) = b})]]

\* `${colA.label} x ${colB.label}`
PairKey(colA, colB) == <<colA.label, " x ", colB.label>>

\* calculateCorrelationMap with the cap K: the pairs are walked with i
\* ascending and j ascending within i, and a pair overwrites the entry of an
\* earlier pair with the same key.
calculateCorrelationMap(responses, columns, K) ==
  LET visualizable == SelectSeq(columns, LAMBDA c : c.isVisualizable)
      targetCols == SubSeq(visualizable, 1, IF Len(visualizable) < K THEN Len(visualizable) ELSE K)
      pairs == {p \in (1..Len(targetCols)) \X (1..Len(targetCols)) : p[1] < p[2]}
      keyOf(p) == PairKey(targetCols[p[1]], targetCols[p[2]])
      later(p, q) == q[1] > p[1] \/ (q[1] = p[1] /\ q[2] > p[2])
      lastOf(key) == CHOOSE p \in pairs :
                       /\ keyOf(p) = key
                       /\ \A q \in pairs : keyOf(q) = key => ~later(p, q)
  IN [key \in {keyOf(p) : p \in pairs} |->
        PairCounts(responses, targetCols[lastOf(key)[1]], targetCols[lastOf(key)[2]])]

InitCorr ==
  /\ storage = <<>>
  /\ sessions = <<>>
  /\ tasks = [t \in Tasks |-> IdleTask]
  /\ now = 0
  /\ uploaded = 0
  /\ toggled = [i \in Ids |-> 0]
  /\ error = "none"
  /\ input = [columns |-> <<>>, responses |-> <<>>]
  /\ output = NoResult
  /\ loading = FALSE

\* The session gets one more column.
AddColumn(kind) ==
  /\ output = NoResult
  /\ Len(input.columns) < MaxColumns
  /\ input' = [input EXCEPT !.columns =
                 Append(@, [id |-> Len(@) + 1, label |-> kind.label,
                            isVisualizable |-> kind.isVisualizable])]
  /\ UNCHANGED <<storage, sessions, tasks, now, uploaded, toggled, error, output, loading>>

\* The session gets one more response.
AddResponse(r) ==
  /\ output = NoResult
  /\ Len(input.responses) < MaxResponses
  /\ input' = [input EXCEPT !.responses = Append(@, r)]
  /\ UNCHANGED <<storage, sessions, tasks, now, uploaded, toggled, error, output, loading>>

\* calculateCorrelationMap of either generation computes the map.
ApplyCorrelationMap(K) ==
  /\ output = NoResult
  /\ output' = [of |-> "calculateCorrelationMap", cap |-> K,
                result |-> calculateCorrelationMap(input.responses, input.columns, K)]
  /\ UNCHANGED <<storage, sessions, tasks, now, uploaded, toggled, error, input, loading>>

NextCorr ==
  \/ \E kind \in ColumnKinds : AddColumn(kind)
  \/ \E r \in ResponseKinds : AddResponse(r)
  \/ \E K \in {CapPersistence, CapNodeServer} : ApplyCorrelationMap(K)

SpecCorr == InitCorr /\ [][NextCorr]_vars

----------------------------------------------------------------------------
\* The Persistence generation: the sessions live in the state of App, which
\* an effect writes to localStorage after every change.

\* The number of files an administrator uploads in SpecLocal.
MaxLocalUploads == 2

\* Persistence.load() on a device that never saved: INITIAL_SESSIONS; the
\* effect of App has saved it.
InitLocal ==
  /\ sessions = SeedData
  /\ storage = SeedData
  /\ tasks = [t \in Tasks |-> IdleTask]
  /\ now = 0
  /\ uploaded = 0
  /\ toggled = [i \in Ids |-> 0]
  /\ error = "none"
  /\ input = <<>>
  /\ output = NoResult
  /\ loading = FALSE

\* The administrator picks a file and submits the form.
LocalStartUpload(t) ==
  /\ Free(t)
  /\ uploaded < MaxLocalUploads
  /\ uploaded' = uploaded + 1
  /\ tasks' = [tasks EXCEPT ![t] =
       [IdleTask EXCEPT !.pc = "reading", !.op = "upload",
                        !.s = [NoSession EXCEPT !.sourceName = uploaded + 1]]]
  /\ UNCHANGED <<storage, sessions, now, toggled, error, input, output, loading>>

\* The session handleFileUpload of this generation builds.
NewLocalSession(t, at, descriptions) ==
  [id |-> at, isPublic |-> TRUE, lastUpdated |-> at,
   sourceName |-> tasks[t].s.sourceName, columnDescriptions |-> descriptions]

\* The descriptions arrive: the session is built and handed to onCreate, which
\* puts it first; the effect saves the new list.
onCreate(t, reply, at) ==
  /\ tasks[t].pc = "describing"
  /\ at \in Instants
  /\ now' = at
  /\ sessions' = <<NewLocalSession(t, at, reply)>> \o sessions
  /\ storage' = sessions'
  /\ tasks' = [tasks EXCEPT ![t] = IdleTask]
  /\ UNCHANGED <<uploaded, toggled, error, input, output, loading>>

\* The delete button of a row of the admin panel.
onDelete(i) ==
  /\ sessions' = WithoutId(sessions, sessions[i].id)
  /\ storage' = sessions'
  /\ UNCHANGED <<tasks, now, uploaded, toggled, error, input, output, loading>>

NextLocal ==
  \/ \E t \in Tasks : LocalStartUpload(t)
  \/ \E t \in Tasks : ReaderLoaded(t)
  \/ \E t \in Tasks, reply \in DescriptionReplies, at \in 1..MaxLocalUploads :
       onCreate(t, reply, at)
  \/ \E i \in 1..Len(sessions) : onDelete(i)

SpecLocal == InitLocal /\ [][NextLocal]_vars

----------------------------------------------------------------------------
\* The storageService generation: `storage` is the backend (the sessions table
\* joined with question_analysis), `sessions` the list of the admin panel.

\* What the summarization service does with one request.
SummaryReplies == {"text", "empty", "error"}

\* generateAcademicSummary: the text of the reply, or a fallback sentence when
\* the text is empty or the request throws.
generateAcademicSummary(reply) ==
  IF reply = "text" THEN "summary" ELSE "fallback"

\* A combinator that is satisfied by the first promise that resolves.
AllResolved_FirstResolved(analyses) == \E c \in Cols : analyses[c] # "pending"

\* Promise.all over the per-column promises: every one of them has resolved.
AllResolved(analyses) == \A c \in Cols : analyses[c] # "pending"

BackendOutcomes == {"ok", "error"}

\* getSessions: the rows, newest first, or nothing when the query fails.
getSessions(outcome) ==
  IF outcome = "ok" THEN SortByLastUpdated(storage) ELSE <<>>

\* The row of a session, and the row joined with its analyses.
SessionRow(s) == [s EXCEPT !.columnDescriptions = Described("absent")]

Upsert(rows, row) ==
  IF row.id \in IdsOf(rows)
    THEN [i \in 1..Len(rows) |-> IF rows[i].id = row.id THEN row ELSE rows[i]]
    ELSE Append(rows, row)

InsertAnalyses(rows, s) ==
  [i \in 1..Len(rows) |->
     IF rows[i].id = s.id
       THEN [rows[i] EXCEPT !.columnDescriptions = s.columnDescriptions]
       ELSE rows[i]]

\* The admin panel mounts and calls loadSessions.
InitSupa ==
  /\ storage = <<>>
  /\ sessions = <<>>
  /\ tasks = [t \in Tasks |->
       IF t = 1 THEN [IdleTask EXCEPT !.pc = "loading", !.op = "load"]
                ELSE IdleTask]
  /\ now = 0
  /\ uploaded = 0
  /\ toggled = [i \in Ids |-> 0]
  /\ error = "none"
  /\ input = <<>>
  /\ output = NoResult
  /\ loading = FALSE

\* The panel is mounted again.
loadSessions(t) ==
  /\ Free(t)
  /\ tasks' = [tasks EXCEPT ![t] = [IdleTask EXCEPT !.pc = "loading", !.op = "load"]]
  /\ UNCHANGED <<storage, sessions, now, uploaded, toggled, error, input, output, loading>>

\* getSessions returns: the panel shows the list; an upload that reloaded
\* after its save clears the error.
LoadDone(t, outcome) ==
  /\ tasks[t].pc = "loading"
  /\ sessions' = getSessions(outcome)
  /\ tasks' = [tasks EXCEPT ![t] = IdleTask]
  /\ error' = IF tasks[t].op = "upload" THEN "none" ELSE error
  /\ UNCHANGED <<storage, now, uploaded, toggled, input, output, loading>>

\* The administrator picks a file.
SupaStartUpload(t) ==
  /\ Free(t)
  /\ uploaded < MaxUploads
  /\ uploaded' = uploaded + 1
  /\ tasks' = [tasks EXCEPT ![t] =
       [IdleTask EXCEPT !.pc = "reading", !.op = "upload",
                        !.s = [NoSession EXCEPT !.sourceName = uploaded + 1]]]
  /\ error' = "none"
  /\ UNCHANGED <<storage, sessions, now, toggled, input, output, loading>>

\* reader.onload: parseCSVData starts one summarization per column.
parseCSVData(t) ==
  /\ tasks[t].pc = "reading"
  /\ tasks' = [tasks EXCEPT ![t].pc = "summarizing",
                            ![t].desc = Described("pending")]
  /\ UNCHANGED <<storage, sessions, now, uploaded, toggled, error, input, output, loading>>

\* The session the admin panel builds from the result of parseCSVData; its id
\* is a fresh UUID.
NewSupaSession(t, at, analyses) ==
  [id |-> tasks[t].s.sourceName, isPublic |-> FALSE, lastUpdated |-> at,
   sourceName |-> tasks[t].s.sourceName, columnDescriptions |-> analyses]

\* One column's summarization ends.  When Promise.all is satisfied the panel
\* builds the session and saveSession sends the file to the archive.
SummaryResolved(t, c, reply, at) ==
  /\ tasks[t].pc = "summarizing"
  /\ tasks[t].desc[c] = "pending"
  /\ LET analyses == [tasks[t].desc EXCEPT ![c] = generateAcademicSummary(reply)]
     IN IF AllResolved(analyses)
          THEN /\ at \in Instants
               /\ now' = at
               /\ tasks' = [tasks EXCEPT ![t].pc = "archiving",
                                         ![t].desc = analyses,
                                         ![t].s = NewSupaSession(t, at, analyses)]
          ELSE /\ at = now
               /\ now' = now
               /\ tasks' = [tasks EXCEPT ![t].desc = analyses]
  /\ UNCHANGED <<storage, sessions, uploaded, toggled, error, input, output, loading>>

\* saveSession, the upload of the file: on an error it returns at once.
ArchiveDone(t, outcome) ==
  /\ tasks[t].pc = "archiving"
  /\ tasks' = [tasks EXCEPT ![t] =
       IF outcome = "ok" THEN [tasks[t] EXCEPT !.pc = "upserting"] ELSE IdleTask]
  /\ error' = IF outcome = "ok" THEN error ELSE "Storage Error"
  /\ UNCHANGED <<storage, sessions, now, uploaded, toggled, input, output, loading>>

\* saveSession, the upsert of the session row.
UpsertDone(t, outcome) ==
  /\ tasks[t].pc = "upserting"
  /\ IF outcome = "ok"
       THEN /\ storage' = Upsert(storage, SessionRow(tasks[t].s))
            /\ tasks' = [tasks EXCEPT ![t].pc = "inserting"]
            /\ error' = error
       ELSE /\ storage' = storage
            /\ tasks' = [tasks EXCEPT ![t] = IdleTask]
            /\ error' = "Database Error (Session)"
  /\ UNCHANGED <<sessions, now, uploaded, toggled, input, output, loading>>

\* saveSession, the insert of the analyses; on success the panel reloads.
InsertDone(t, outcome) ==
  /\ tasks[t].pc = "inserting"
  /\ IF outcome = "ok"
       THEN /\ storage' = InsertAnalyses(storage, tasks[t].s)
            /\ tasks' = [tasks EXCEPT ![t] =
                 [IdleTask EXCEPT !.pc = "loading", !.op = "upload"]]
            /\ error' = error
       ELSE /\ storage' = storage
            /\ tasks' = [tasks EXCEPT ![t] = IdleTask]
            /\ error' = "Database Error (Analysis)"
  /\ UNCHANGED <<sessions, now, uploaded, toggled, input, output, loading>>

\* handleDelete: deleteSession is sent for a row of the list.
SupaHandleDelete(t, i) ==
  /\ Free(t)
  /\ tasks' = [tasks EXCEPT ![t] =
       [IdleTask EXCEPT !.pc = "deleting", !.op = "delete", !.s = sessions[i]]]
  /\ UNCHANGED <<storage, sessions, now, uploaded, toggled, error, input, output, loading>>

\* deleteSession returns (an error is only logged); the panel reloads.
DeleteSessionDone(t, outcome) ==
  /\ tasks[t].pc = "deleting"
  /\ storage' = IF outcome = "ok" THEN WithoutId(storage, tasks[t].s.id) ELSE storage
  /\ tasks' = [tasks EXCEPT ![t] = [IdleTask EXCEPT !.pc = "loading", !.op = "load"]]
  /\ UNCHANGED <<sessions, now, uploaded, toggled, error, input, output, loading>>

\* handleTogglePublic: togglePublicStatus(id, session.isPublic) is sent with
\* the visibility the list shows.
handleTogglePublic(t, i) ==
  /\ Free(t)
  /\ tasks' = [tasks EXCEPT ![t] =
       [IdleTask EXCEPT !.pc = "toggling", !.op = "toggle",
                        !.s = [sessions[i] EXCEPT !.isPublic = ~@]]]
  /\ UNCHANGED <<storage, sessions, now, uploaded, toggled, error, input, output, loading>>

\* togglePublicStatus returns (an error is only logged); the panel reloads.
TogglePublicDone(t, outcome) ==
  /\ tasks[t].pc = "toggling"
  /\ storage' = IF outcome = "ok"
                  THEN ApplyUpdate(storage, tasks[t].s.id, tasks[t].s.isPublic)
                  ELSE storage
  /\ tasks' = [tasks EXCEPT ![t] = [IdleTask EXCEPT !.pc = "loading", !.op = "load"]]
  /\ UNCHANGED <<sessions, now, uploaded, toggled, error, input, output, loading>>

NextSupa ==
  \/ \E t \in Tasks : loadSessions(t)
  \/ \E t \in Tasks, outcome \in BackendOutcomes : LoadDone(t, outcome)
  \/ \E t \in Tasks : SupaStartUpload(t)
  \/ \E t \in Tasks : parseCSVData(t)
  \/ \E t \in Tasks, c \in Cols, reply \in SummaryReplies, at \in Ids :
       SummaryResolved(t, c, reply, at)
  \/ \E t \in Tasks, outcome \in BackendOutcomes : ArchiveDone(t, outcome)
  \/ \E t \in Tasks, outcome \in BackendOutcomes : UpsertDone(t, outcome)
  \/ \E t \in Tasks, outcome \in BackendOutcomes : InsertDone(t, outcome)
  \/ \E t \in Tasks, i \in 1..Len(sessions) : SupaHandleDelete(t, i)
  \/ \E t \in Tasks, outcome \in BackendOutcomes : DeleteSessionDone(t, outcome)
  \/ \E t \in Tasks, i \in 1..Len(sessions) : handleTogglePublic(t, i)
  \/ \E t \in Tasks, outcome \in BackendOutcomes : TogglePublicDone(t, outcome)

SpecSupa == InitSupa /\ [][NextSupa]_vars

----------------------------------------------------------------------------
\* Claims about the RegistryStore generation

\* C1: a non-privileged consumer never observes a private session: neither the
\* list of HomePage nor the lookup by id of SessionView shows one.
C1_NoPrivateObserved ==
  \A r \in Routes : \A s \in Rendered(r, "none") : s.isPublic

\* The result of a merge as C2 describes it, for the cache `local`.
MergedAsClaimed(local, result) ==
  /\ \A id \in IdsOf(SeedData) \cap IdsOf(local) :
       /\ Cardinality({i \in 1..Len(result) : result[i].id = id}) = 1
       /\ Find(result, id) = Find(SeedData, id)
  /\ WithoutIds(result, IdsOf(SeedData)) = WithoutIds(local, IdsOf(SeedData))

\* C2: when sync obtains the seed, what it saves and what it returns hold, for
\* every id both in the seed and in the cache it read, exactly one session with
\* that id, the seed's; and every cached session of another id is kept.
C2_SyncMerge ==
  [][\A t \in Tasks :
       RefreshDone(t, "ok") =>
         /\ MergedAsClaimed(tasks[t].local, storage')
         /\ MergedAsClaimed(SortByLastUpdated(tasks[t].local), sessions')]_vars

\* A list was computed from a cache that held a changed copy of the seed
\* session and an uploaded session; a second flow still holds that cache.
C2_Witness ==
  \E t \in Tasks :
    /\ tasks[t].pc = "sync"
    /\ Find(tasks[t].local, SeedId) \notin {NoSession, SeedData[1]}
    /\ IdsOf(tasks[t].local) \ {SeedId} # {}
    /\ sessions = SortByLastUpdated(MergeSeed(SeedData, tasks[t].local))
    /\ storage = MergeSeed(SeedData, tasks[t].local)

\* The sessions a consumer can get at: the cache and the list.
Listable == Range(storage) \cup Range(sessions)

\* C4: while an upload still reads its file or awaits its column descriptions,
\* neither the cache nor the list holds its session, and no session there has
\* descriptions that are still awaited.
C4_ListedOnlyAfterIngestion ==
  /\ \A t \in Tasks :
       tasks[t].pc \in {"reading", "describing"} =>
         \A s \in Listable : s.sourceName # tasks[t].s.sourceName
  /\ \A s \in Listable : \A c \in Cols : s.columnDescriptions[c] # "pending"

\* An upload awaits its descriptions while a sync of another flow is in flight.
C4_Witness ==
  \E t, u \in Tasks :
    /\ tasks[t].pc = "describing"
    /\ tasks[u].pc = "sync"
    /\ sessions # <<>>

\* C6: every committed session holds, for every column, a real description or
\* a marked fallback, whatever the summarization service did.
C6_DescriptionOrFallback ==
  \A s \in Range(storage) :
    \A c \in Cols : s.columnDescriptions[c] \in {"summary", "fallback"}

\* C8: the list() that starts when update(id, patch) has completed returns the
\* session with the patched visibility.
C8_UpdatePersists ==
  [][\A t \in Tasks, outcome \in FetchOutcomes :
       (OperationDone(t, outcome) /\ tasks[t].op = "update"
          /\ tasks[t].s.id \in IdsOf(storage'))
         => Find(SyncResult(storage', "ok"), tasks[t].s.id).isPublic
              = tasks[t].s.isPublic]_vars

\* C9: the list() that starts when detach(id) has completed returns no session
\* with that id.
C9_DetachPersists ==
  [][\A t \in Tasks, outcome \in FetchOutcomes :
       (OperationDone(t, outcome) /\ tasks[t].op = "detach")
         => tasks[t].s.id \notin IdsOf(SyncResult(storage', "ok"))]_vars

\* The visibility a session has before any toggle: the seed's, or private.
OriginalVisibility(id) ==
  IF id \in IdsOf(SeedData) THEN Find(SeedData, id).isPublic ELSE FALSE

\* C10: once two toggle requests for a session have run to the end, the
\* session has its original visibility.
C10_TwoTogglesRestore ==
  (\A t \in Tasks : Idle(t)) =>
    \A s \in Range(storage) :
      toggled[s.id] = 2 => s.isPublic = OriginalVisibility(s.id)

\* No two sessions of the sequence have the same id.
OnePerId(seq) == \A i, j \in 1..Len(seq) : seq[i].id = seq[j].id => i = j

\* C11: the stored collection and the list hold at most one session per id,
\* and a list() of what a list() saved returns the same collection.
C11_OneSessionPerId ==
  /\ OnePerId(storage)
  /\ OnePerId(sessions)
  /\ SyncResult(SyncSaved(storage, "ok", storage), "ok") = SyncResult(storage, "ok")

----------------------------------------------------------------------------
\* Claims about the Persistence generation

\* C3: a session created by handleFileUpload is stored private, and the list
\* of a non-privileged consumer does not show it (this generation has no
\* operation that updates a session).
C3_UploadsStartPrivate ==
  /\ \A s \in Range(storage) : s.id \notin IdsOf(SeedData) => ~s.isPublic
  /\ \A s \in Rendered(HomeRoute, "none") : s.id \in IdsOf(SeedData)

----------------------------------------------------------------------------
\* Claims about the storageService generation

\* C5: saveSession is all-or-nothing: once no saveSession is writing a
\* session, the backend holds the session with all its analyses or not at all.
C5_SaveAllOrNothing ==
  \A s \in Range(storage) :
    (\A t \in Tasks :
       tasks[t].pc \in {"upserting", "inserting"} => tasks[t].s.id # s.id)
      => \A c \in Cols : s.columnDescriptions[c] # "absent"

\* C7: the result of parseCSVData exists only when the summarization of every
\* column has resolved: the session built from it, and every session saved or
\* listed, has no column whose summary is still awaited.
C7_ResultAfterEveryColumn ==
  /\ \A t \in Tasks :
       tasks[t].pc \in {"archiving", "upserting", "inserting"} =>
         \A c \in Cols : tasks[t].s.columnDescriptions[c] \in {"summary", "fallback"}
  /\ \A s \in Listable : \A c \in Cols : s.columnDescriptions[c] # "pending"

\* A result was produced from one real summary and one fallback.
C7_Witness ==
  \E t \in Tasks :
    /\ tasks[t].pc = "archiving"
    /\ \E c, d \in Cols :
         /\ tasks[t].s.columnDescriptions[c] = "summary"
         /\ tasks[t].s.columnDescriptions[d] = "fallback"

\* C12: when a read or a write of the backend fails during a list, a save, a
\* visibility toggle or a delete, the admin panel holds an error afterwards.
C12_FailureReported ==
  [][\A t \in Tasks :
       (\/ LoadDone(t, "error")
        \/ ArchiveDone(t, "error")
        \/ UpsertDone(t, "error")
        \/ InsertDone(t, "error")
        \/ DeleteSessionDone(t, "error")
        \/ TogglePublicDone(t, "error")) => error' # "none"]_vars

\* C13: when the fetch of the seed rejects inside commit, update or detach,
\* every session stored before is still stored afterwards, except the one
\* being detached.
C13_NothingDroppedOnFailedRead ==
  [][\A t \in Tasks :
       OperationDone(t, "reject") =>
         \A s \in Range(storage) :
           (tasks[t].op = "detach" /\ s.id = tasks[t].s.id)
             \/ s.id \in IdsOf(storage')]_vars

\* The number of content lines of a file: its non-blank lines after the header.
ContentLines(csv) ==
  LET n == Len(SelectSeq(csv, LAMBDA line : ~IsBlank(line)))
  IN IF n = 0 THEN 0 ELSE n - 1

\* C14: when the file has fewer than one content line, no session of an
\* upload is committed to the registry.
C14_NoCommitWithoutContent ==
  ContentLines(input) < 1 =>
    \A s \in Range(storage) : s.id \in IdsOf(SeedData)

\* C15: every key of the columnDescriptions of a committed upload is the id
\* of a column of the session, whatever the summarization service replied.
C15_KeysAreColumnIds ==
  \A s \in Range(storage) :
    s.id \notin IdsOf(SeedData) =>
      DOMAIN s.columnDescriptions \subseteq ColumnIdsOf(parseCSV(input))

----------------------------------------------------------------------------
\* Claims about the distributions

\* The non-empty trimmed values of the column, in the order of the responses.
ValidValues ==
  SelectSeq([i \in 1..Len(input) |-> Trim(input[i])], LAMBDA v : v # "")

FirstIndex(values, name) ==
  CHOOSE i \in 1..Len(values) :
    values[i] = name /\ \A j \in 1..(i - 1) : values[j] # name

RECURSIVE SumOf(_, _)
SumOf(data, field) ==
  IF data = <<>> THEN 0 ELSE Head(data)[field] + SumOf(Tail(data), field)

\* C16: the entries of getColumnDist are sorted by descending count, and
\* entries with equal counts are in the order in which their values first
\* occur in the responses.
C16_SortedByCountThenFirstSeen ==
  output.of = "getColumnDist" =>
    LET data == output.result.data
    IN \A i, j \in 1..Len(data) :
         i < j =>
           \/ data[i].value > data[j].value
           \/ /\ data[i].value = data[j].value
              /\ FirstIndex(ValidValues, data[i].name)
                   < FirstIndex(ValidValues, data[j].name)

\* C17: a distribution has exactly one entry per distinct non-empty trimmed
\* value, with its count; totalValid is the sum of the counts, and the
\* percentages are over totalValid.
C17_OnlyNonEmptyCounted ==
  output.of \in {"getColumnDist", "parseCSVData"} =>
    LET data == output.result.data
    IN /\ {data[i].name : i \in 1..Len(data)} = Range(ValidValues)
       /\ \A i \in 1..Len(data) :
            /\ data[i].value = Count(ValidValues, data[i].name)
            /\ data[i].percentage = toFixed1(data[i].value, Len(ValidValues))
       /\ output.result.totalValid = SumOf(data, "value")
       /\ output.result.totalValid = Len(ValidValues)

----------------------------------------------------------------------------
\* Claims about the classification of columns

\* C19: a column in which all non-empty values are distinct and there are
\* more than 5 of them is parsed with isVisualizable = false.
C19_IdentifiersNotVisualizable ==
  (/\ output.of \in {"parseCSV", "parseCSVHeuristic"}
   /\ Len(ValidValues) > 5
   /\ Cardinality(Range(ValidValues)) = Len(ValidValues)) =>
     \A c \in 1..Len(output.result.columns) :
       ~output.result.columns[c].isVisualizable

\* The exclusion rules of the specification that totalValid and uniqueCount
\* decide (the texts of the model are short, not e-mail addresses, and fewer
\* than 50).
Excluded(totalValid, uniqueCount) ==
  \/ totalValid <= 1
  \/ uniqueCount <= 1
  \/ (5 * uniqueCount > 4 * totalValid /\ totalValid > 5)
  \/ uniqueCount >= 50

\* C20: at parse time a column is visualizable exactly when no exclusion rule
\* holds.
C20_VisualizableIffNoExclusion ==
  output.of = "parseCSVHeuristic" =>
    \A c \in 1..Len(output.result.columns) :
      output.result.columns[c].isVisualizable
        <=> ~Excluded(Len(ValidValues), Cardinality(Range(ValidValues)))

----------------------------------------------------------------------------
\* Claims about the headers and the responses

\* The headers of the file as the parsers read them.
HeadersOf(csv) == [k \in 1..Len(csv[1]) |-> Trim(csv[1][k])]

LabelsOf(columns) == [i \in 1..Len(columns) |-> columns[i].label]

\* C21: parseCSV produces one column for every header that does not contain
\* "timestamp" and none for a header that does (stated for a file with a
\* content line).
C21_ColumnPerKeptHeader ==
  (output.of \in Variants /\ Len(input) >= 2) =>
    LabelsOf(output.result.columns)
      = SelectSeq(HeadersOf(input), LAMBDA h : ~IsTimestamp(h))

KeptPositions(variant, headers) ==
  SelectSeq([k \in 1..Len(headers) |-> k],
            LAMBDA k : /\ ~IsTimestamp(headers[k])
                       /\ variant = "parseCSVSupa" => ~IsPersonal(headers[k]))

\* C27: every response maps the id of every column to the field at the
\* position of the column's header in the line, also when two headers have
\* the same label.
C27_ValueAtHeaderPosition ==
  (output.of \in {"parseCSV", "parseCSVSupa"} /\ Len(input) >= 2) =>
    LET columns == output.result.columns
        kept == KeptPositions(output.of, HeadersOf(input))
    IN /\ Len(columns) = Len(kept)
       /\ \A r \in 1..Len(output.result.responses), i \in 1..Len(columns) :
            /\ columns[i].id \in DOMAIN output.result.responses[r]
            /\ output.result.responses[r][columns[i].id] = ValueAt(input[r + 1], kept[i])

----------------------------------------------------------------------------
\* Claims about the tokenizers

QuotesBefore(line, i) == Cardinality({j \in 1..(i - 1) : line[j] = Quote})

\* The commas of the line that are outside quotes.
UnquotedCommas(line) ==
  {i \in 1..Len(line) : line[i] = "," /\ QuotesBefore(line, i) % 2 = 0}

\* C22: a line is split into (number of unquoted commas + 1) fields; a comma
\* inside a quoted field is data (stated for lines whose quotes are closed).
C22_FieldsPerUnquotedComma ==
  (/\ output.of \in {"split", "splitHeader", "tokenize"}
   /\ QuotesBefore(input, Len(input) + 1) % 2 = 0) =>
     Len(output.result.values) = Cardinality(UnquotedCommas(input)) + 1

\* The tokenizer the claim describes: outside a quoted field a quote opens
\* one; inside, a doubled quote is a literal quote and any other quote closes
\* the field.
RECURSIVE QuoteAware(_, _, _, _, _)
QuoteAware(line, i, values, current, inQuotes) ==
  IF i > Len(line)
    THEN [values |-> Append(values, TrimChars(current)), inQuotes |-> inQuotes]
  ELSE IF inQuotes /\ line[i] = Quote /\ i + 1 <= Len(line) /\ line[i + 1] = Quote
    THEN QuoteAware(line, i + 2, values, Append(current, Quote), inQuotes)
  ELSE IF line[i] = Quote
    THEN QuoteAware(line, i + 1, values, current, ~inQuotes)
  ELSE IF line[i] = "," /\ ~inQuotes
    THEN QuoteAware(line, i + 1, Append(values, TrimChars(current)), <<>>, inQuotes)
  ELSE QuoteAware(line, i + 1, values, Append(current, line[i]), inQuotes)

\* C30: the tokenizer takes a doubled quote for a literal quote only inside
\* a quoted field; an empty quoted field is the empty string and leaves the
\* field closed.
C30_DoubledQuoteOnlyInsideQuotes ==
  output.of = "tokenize" => output.result = QuoteAware(input, 1, <<>>, <<>>, FALSE)

----------------------------------------------------------------------------
\* Claims about the correlation map

\* The sum of the counts of a map from values to counts.
RECURSIVE SumOver(_, _)
SumOver(counts, keys) ==
  IF keys = {} THEN 0
  ELSE LET k == CHOOSE x \in keys : TRUE
       IN counts[k] + SumOver(counts, keys \ {k})

\* The sum of the counts of a two-level map.
SumTwoLevel(counts) ==
  SumOver([a \in DOMAIN counts |-> SumOver(counts[a], DOMAIN counts[a])], DOMAIN counts)

\* C23: for every pair in the correlation map the counts sum to the number
\* of responses; a missing or empty value is counted under "Unknown".
C23_CountsSumToResponses ==
  output.of = "calculateCorrelationMap" =>
    \A key \in DOMAIN output.result :
      SumTwoLevel(output.result[key]) = Len(input.responses)

C23_Witness ==
  /\ output.of = "calculateCorrelationMap"
  /\ Len(input.responses) = MaxResponses
  /\ \E key \in DOMAIN output.result :
       \E a \in DOMAIN output.result[key] : "Unknown" \in DOMAIN output.result[key][a]

\* C24: the map has one entry for every pair i < j of the first K
\* visualizable columns, m*(m-1)/2 of them, each with the counts of its pair.
C24_OneEntryPerPair ==
  output.of = "calculateCorrelationMap" =>
    LET visualizable == SelectSeq(input.columns, LAMBDA c : c.isVisualizable)
        m == IF Len(visualizable) < output.cap THEN Len(visualizable) ELSE output.cap
    IN /\ Cardinality(DOMAIN output.result) = (m * (m - 1)) \div 2
       /\ \A i \in 1..m, j \in 1..m :
            i < j =>
              LET key == <<visualizable[i].label, " x ", visualizable[j].label>>
              IN /\ key \in DOMAIN output.result
                 /\ output.result[key]
                      = PairCounts(input.responses, visualizable[i], visualizable[j])

----------------------------------------------------------------------------
\* Claims about interleaved operations, the loading flag and the frame of
\* update

\* C26: when a commit and an update or detach interleave at the fetch inside
\* sync, both take effect.  When the update or detach saves, every session
\* committed since it read the store is still stored; when the commit saves,
\* every stored session keeps the visibility it has and no detached session
\* comes back.
C26_InterleavedBothTakeEffect ==
  [][\A t \in Tasks :
       OperationDone(t, "ok") =>
         /\ tasks[t].op \in {"update", "detach"} =>
              \A s \in Range(storage) :
                s.id \notin (IdsOf(tasks[t].local) \cup IdsOf(SeedData))
                  => s.id \in IdsOf(storage')
         /\ tasks[t].op = "commit" =>
              /\ \A s \in Range(storage) :
                   s.id \notin IdsOf(SeedData) => s \in Range(storage')
              /\ IdsOf(storage') \subseteq
                   IdsOf(storage) \cup IdsOf(SeedData) \cup {tasks[t].s.id}]_vars

\* A flow that ingests a file: from the click to the end of the commit.
Ingesting(t) ==
  \/ tasks[t].pc \in {"reading", "describing"}
  \/ tasks[t].pc = "sync" /\ tasks[t].op = "commit"

\* C28: while an ingestion is in progress the loading flag is true, and no
\* second ingestion is in progress.
C28_LoadingWhileIngesting ==
  /\ \A t \in Tasks : Ingesting(t) => loading
  /\ Cardinality({t \in Tasks : Ingesting(t)}) <= 1

\* C29: update(id, patch) changes only the session with that id and only the
\* patched field; every other stored session is unchanged, none appears, and
\* when no session has the id the collection is unchanged.
C29_UpdateFrame ==
  [][\A t \in Tasks, outcome \in FetchOutcomes :
       (OperationDone(t, outcome) /\ tasks[t].op = "update") =>
         LET id == tasks[t].s.id
         IN /\ \A s \in Range(storage) : s.id # id => s \in Range(storage')
            /\ \A s \in Range(storage') : s.id # id => s \in Range(storage)
            /\ \A s \in Range(storage) :
                 s.id = id =>
                   [s EXCEPT !.isPublic = tasks[t].s.isPublic] \in Range(storage')
            /\ id \notin IdsOf(storage) => Range(storage') = Range(storage)]_vars

====
